---------------------------- MODULE Spec2Model ----------------------------
(***************************************************************************)
(* Model of the tennis feature pipeline: preprocess_data (seeded role      *)
(* assignment, score parsing), add_features (chronological streaming pass  *)
(* over the surface and head-to-head histories) and                         *)
(* compute_rolling_features (player-centric trailing-window means).         *)
(*                                                                         *)
(* Numbers the code holds as floats are exact fractions <<num, den>> in    *)
(* lowest terms; NaN is <<0, 0>>.  Players are small naturals, ordered as  *)
(* Python orders the name strings.  A score string is a sequence of        *)
(* one-character strings.                                                  *)
(***************************************************************************)
EXTENDS Integers, Sequences, FiniteSets, TLC

VARIABLES
    pc,               \* position in predictor.main: "load", "preprocessed", "loop", "done"
    run,              \* how many times the pipeline has been started on data
    data,             \* the raw match table handed to preprocess_data
    processed_data,   \* the table preprocess_data returned
    order,            \* the indexer sort_values("tourney_date") produced
    df,               \* add_features' sorted, re-indexed copy
    row_i,            \* number of rows the streaming loop has consumed
    surface_history,  \* player -> surface -> <<wins, total>>
    h2h_history,      \* <<first, second>> -> <<wins_first, wins_second>>
    p1_surface_pct,
    p2_surface_pct,
    h2h_diff,
    player_df,        \* compute_rolling_features' player-centric frame
    final_df,         \* the table add_features returned
    previous          \* what the previous run returned (df, surface, h2h)

vars == <<pc, run, data, processed_data, order, df, row_i, surface_history,
          h2h_history, p1_surface_pct, p2_surface_pct, h2h_diff, player_df, final_df,
          previous>>

-----------------------------------------------------------------------------
(* Bounds of the model                                                     *)

\* rows of the raw table in the streaming specification
MaxMatches == 3
\* rows of the raw table in the long-history (rolling window) specification
MaxEvents == 12
\* tokens of the score string in the score-parsing specification
MaxTokens == 2

-----------------------------------------------------------------------------
(* Program constants                                                       *)

DEFAULT_WIN_PCT == <<1, 2>>
RECENT_FORM_WINDOWS == <<5, 10>>
SEED == 42
NaN == <<0, 0>>
NaT == 0
UnknownSurface == "Unknown"
\* a missing (NaN) surface cell
NaSurface == "<NA>"

-----------------------------------------------------------------------------
(* Exact arithmetic standing for the float arithmetic of the code          *)

RECURSIVE GCD(_, _)
GCD(a, b) == IF b = 0 THEN a ELSE GCD(b, a % b)

\* n / d for naturals, d > 0
Frac(n, d) == LET g == GCD(n, d) IN <<n \div g, d \div g>>

IsNaN(x) == x[2] = 0

RECURSIVE SumSeq(_)
SumSeq(s) == IF s = <<>> THEN 0 ELSE Head(s) + SumSeq(Tail(s))

\* a sequence or a mapping held as explicit values (computed once, not
\* on every read)
Stored(seq) == seq \o <<>>
StoredMap(f) == f @@ [x \in {} |-> x]

Min2(a, b) == IF a <= b THEN a ELSE b
Max2(a, b) == IF a >= b THEN a ELSE b


-----------------------------------------------------------------------------
(* data/preprocess.py                                                      *)

Digits == {"0", "1", "2", "3", "4", "5", "6", "7", "8", "9"}

DigitVal(c) ==
    CASE c = "0" -> 0 [] c = "1" -> 1 [] c = "2" -> 2 [] c = "3" -> 3
      [] c = "4" -> 4 [] c = "5" -> 5 [] c = "6" -> 6 [] c = "7" -> 7
      [] c = "8" -> 8 [] c = "9" -> 9

\* str.split(sep): the parts between separators, empty parts kept
RECURSIVE SplitOn(_, _)
SplitOn(s, sep) ==
    IF s = <<>> THEN << <<>> >>
    ELSE LET r == SplitOn(Tail(s), sep)
         IN  IF Head(s) = sep THEN << <<>> >> \o r
             ELSE << <<Head(s)>> \o Head(r) >> \o Tail(r)

\* str.split(): split on runs of whitespace, no empty parts
SplitWhitespace(s) == SelectSeq(SplitOn(s, " "), LAMBDA t : t # <<>>)

\* sub in s
Contains(s, sub) ==
    \E i \in 1..(Len(s) - Len(sub) + 1) : SubSeq(s, i, i + Len(sub) - 1) = sub

\* int(p) does not raise ValueError: an optional "+", then digits with
\* single underscores between them (p holds no "-" and no whitespace)
IntParses(p) ==
    LET q == IF p # <<>> /\ Head(p) = "+" THEN Tail(p) ELSE p
    IN  /\ q # <<>>
        /\ q[1] \in Digits
        /\ q[Len(q)] \in Digits
        /\ \A i \in 1..Len(q) : q[i] \in Digits \cup {"_"}
        /\ \A i \in 1..(Len(q) - 1) : ~(q[i] = "_" /\ q[i + 1] = "_")

RECURSIVE DigitsVal(_, _)
DigitsVal(p, acc) ==
    IF p = <<>> THEN acc ELSE DigitsVal(Tail(p), 10 * acc + DigitVal(Head(p)))

IntVal(p) == DigitsVal(SelectSeq(p, LAMBDA c : c \in Digits), 0)

IsMarker(s) ==
    \/ Contains(s, <<"R", "E", "T">>)
    \/ Contains(s, <<"W", "/", "O">>)
    \/ Contains(s, <<"d", "e", "f", ".">>)

\* the tally that adds each game number as soon as it has parsed
TokenTallyEager(tok) ==
    IF IsMarker(tok) THEN <<0, 0, 0, 0>>
    ELSE LET s == IF Contains(tok, <<"(">>) THEN Head(SplitOn(tok, "(")) ELSE tok
             parts == SplitOn(s, "-")
         IN  IF Len(parts) # 2 THEN <<0, 0, 0, 0>>
             ELSE IF ~IntParses(parts[1]) THEN <<0, 0, 0, 0>>
             ELSE IF ~IntParses(parts[2]) THEN <<IntVal(parts[1]), 0, 0, 0>>
                  ELSE LET w_g == IntVal(parts[1])
                           l_g == IntVal(parts[2])
                       IN  <<w_g, l_g,
                             IF w_g > l_g THEN 1 ELSE 0,
                             IF l_g > w_g THEN 1 ELSE 0>>

\* what one token of the score adds to <<w_games, l_games, w_sets, l_sets>>
\* (lines 110-135): the additions come after both int() calls
TokenTally(tok) ==
    IF IsMarker(tok) THEN <<0, 0, 0, 0>>
    ELSE LET s == IF Contains(tok, <<"(">>) THEN Head(SplitOn(tok, "(")) ELSE tok
             parts == SplitOn(s, "-")
         IN  IF Len(parts) # 2 THEN <<0, 0, 0, 0>>
             ELSE IF ~(IntParses(parts[1]) /\ IntParses(parts[2]))
                  THEN <<0, 0, 0, 0>>
                  ELSE LET w_g == IntVal(parts[1])
                           l_g == IntVal(parts[2])
                       IN  <<w_g, l_g,
                             IF w_g > l_g THEN 1 ELSE 0,
                             IF l_g > w_g THEN 1 ELSE 0>>

RECURSIVE SumTallies(_)
SumTallies(toks) ==
    IF toks = <<>> THEN <<0, 0, 0, 0>>
    ELSE LET a == TokenTally(Head(toks))
             b == SumTallies(Tail(toks))
         IN  <<a[1] + b[1], a[2] + b[2], a[3] + b[3], a[4] + b[4]>>

parse_match_score(score_str) ==
    IF SplitWhitespace(score_str) = <<>> THEN <<0, 0, 0, 0>>
    ELSE SumTallies(SplitWhitespace(score_str))

\* np.random.default_rng(seed=42).random(n), in thousandths: the first
\* draws of the PCG64 stream for that seed
PCG64Stream(seed) ==
    <<773, 438, 858, 697, 94, 975, 761, 786, 128, 450, 370, 926, 643, 822,
      443, 227, 554, 63, 827, 631>>

rng_random(seed, n) == SubSeq(PCG64Stream(seed), 1, n)

\* r (thousandths) > pct
ExceedsPct(r, pct) == r * pct[2] > 1000 * pct[1]

swap_players_of(n) ==
    [i \in 1..n |-> ExceedsPct(rng_random(SEED, n)[i], DEFAULT_WIN_PCT)]

\* the row with player 2's set tallies left in the winner's order
PreprocessRowUnmirrored(r, swap) ==
    LET w == parse_match_score(r.score)
    IN  [ tourney_date  |-> r.tourney_date,
          surface       |-> r.surface,
          p1_name       |-> IF swap THEN r.loser_name ELSE r.winner_name,
          p2_name       |-> IF swap THEN r.winner_name ELSE r.loser_name,
          target        |-> IF swap THEN 0 ELSE 1,
          p1_games_won  |-> IF swap THEN w[2] ELSE w[1],
          p1_games_lost |-> IF swap THEN w[1] ELSE w[2],
          p1_sets_won   |-> IF swap THEN w[4] ELSE w[3],
          p1_sets_lost  |-> IF swap THEN w[3] ELSE w[4],
          p2_games_won  |-> IF swap THEN w[1] ELSE w[2],
          p2_games_lost |-> IF swap THEN w[2] ELSE w[1],
          p2_sets_won   |-> w[3],
          p2_sets_lost  |-> w[4] ]

\* one row of new_df; rank, age and tourney_level are carried through
\* unchanged by the code and left out
PreprocessRow(r, swap) ==
    LET w == parse_match_score(r.score)
    IN  [ tourney_date  |-> r.tourney_date,
          surface       |-> r.surface,
          p1_name       |-> IF swap THEN r.loser_name ELSE r.winner_name,
          p2_name       |-> IF swap THEN r.winner_name ELSE r.loser_name,
          target        |-> IF swap THEN 0 ELSE 1,
          p1_games_won  |-> IF swap THEN w[2] ELSE w[1],
          p1_games_lost |-> IF swap THEN w[1] ELSE w[2],
          p1_sets_won   |-> IF swap THEN w[4] ELSE w[3],
          p1_sets_lost  |-> IF swap THEN w[3] ELSE w[4],
          p2_games_won  |-> IF swap THEN w[1] ELSE w[2],
          p2_games_lost |-> IF swap THEN w[2] ELSE w[1],
          p2_sets_won   |-> IF swap THEN w[3] ELSE w[4],
          p2_sets_lost  |-> IF swap THEN w[4] ELSE w[3] ]

preprocess_data(raw) ==
    LET swap_players == swap_players_of(Len(raw))
    IN  [i \in 1..Len(raw) |-> PreprocessRow(raw[i], swap_players[i])]

-----------------------------------------------------------------------------
(* features/engineering.py: add_features                                   *)

DaysInMonth(m) == IF m = 2 THEN 28 ELSE IF m \in {4, 6, 9, 11} THEN 30 ELSE 31

\* pd.to_datetime(d, format="%Y%m%d", errors="coerce") of an integer cell:
\* the date (kept as the same number, which orders as the dates do) or NaT
to_datetime(d) ==
    LET y  == d \div 10000
        m  == (d \div 100) % 100
        dd == d % 100
    IN  IF /\ y \in 1000..9999
           /\ m \in 1..12
           /\ dd \in 1..DaysInMonth(m)
        THEN d ELSE NaT

\* the rows that may come first among the rows S: a least date, NaT last;
\* NaT rows keep their input order, equal dates come in any order (the
\* default sort kind is not stable)
SortFirsts(dates, S) ==
    IF \E i \in S : dates[i] # NaT
    THEN {i \in S : /\ dates[i] # NaT
                    /\ \A j \in S : dates[j] # NaT => dates[i] <= dates[j]}
    ELSE {i \in S : \A j \in S : i <= j}

RECURSIVE SortOrders(_, _)
SortOrders(dates, S) ==
    IF S = {} THEN {<<>>}
    ELSE UNION {{<<x>> \o t : t \in SortOrders(dates, S \ {x})} :
                x \in SortFirsts(dates, S)}

\* every indexer df.sort_values("tourney_date") may return
sort_values(dates) == SortOrders(dates, 1..Len(dates))

\* df after the copy, the date conversion, the sort and reset_index
SortedFrame(tbl, ord) ==
    [k \in 1..Len(tbl) |->
        [tbl[ord[k]] EXCEPT !.tourney_date = to_datetime(@)]]

EmptyHistory == [x \in {} |-> x]

\* the lookup without the test for "Unknown"
get_surface_win_pct_any(sh, player, surface) ==
    IF player \in DOMAIN sh /\ surface \in DOMAIN sh[player]
         /\ sh[player][surface][2] > 0
    THEN Frac(sh[player][surface][1], sh[player][surface][2])
    ELSE DEFAULT_WIN_PCT

get_surface_win_pct(sh, player, surface) ==
    IF surface = UnknownSurface THEN DEFAULT_WIN_PCT
    ELSE IF player \in DOMAIN sh /\ surface \in DOMAIN sh[player]
              /\ sh[player][surface][2] > 0
         THEN Frac(sh[player][surface][1], sh[player][surface][2])
         ELSE DEFAULT_WIN_PCT

\* the update that records nothing for "Unknown"
update_known_surface_history(sh, player, surface, won) ==
    IF surface = UnknownSurface THEN sh
    ELSE LET sh1 == IF player \in DOMAIN sh THEN sh
                    ELSE (player :> EmptyHistory) @@ sh
             sh2 == IF surface \in DOMAIN sh1[player] THEN sh1
                    ELSE [sh1 EXCEPT ![player] = (surface :> <<0, 0>>) @@ @]
             old == sh2[player][surface]
         IN  [sh2 EXCEPT ![player][surface] =
                 <<IF won THEN old[1] + 1 ELSE old[1], old[2] + 1>>]

update_surface_history(sh, player, surface, won) ==
    LET sh1 == IF player \in DOMAIN sh THEN sh
               ELSE (player :> EmptyHistory) @@ sh
        sh2 == IF surface \in DOMAIN sh1[player] THEN sh1
               ELSE [sh1 EXCEPT ![player] = (surface :> <<0, 0>>) @@ @]
        old == sh2[player][surface]
    IN  [sh2 EXCEPT ![player][surface] =
            <<IF won THEN old[1] + 1 ELSE old[1], old[2] + 1>>]

\* the pair in role order
UnsortedPair(p1, p2) == <<p1, p2>>

\* tuple(sorted([p1, p2]))
SortedPair(p1, p2) == <<Min2(p1, p2), Max2(p1, p2)>>

\* the difference in the key's order, whoever is player 1
H2HDiffOfKey(h2h, p1, p2) ==
    LET pair == SortedPair(p1, p2)
    IN  IF pair \in DOMAIN h2h THEN h2h[pair][1] - h2h[pair][2] ELSE 0

\* the h2h_diff of one row, read from the history (lines 71-81)
H2HDiffOf(h2h, p1, p2) ==
    LET pair == SortedPair(p1, p2)
    IN  IF pair \in DOMAIN h2h
        THEN IF p1 = pair[1] THEN h2h[pair][1] - h2h[pair][2]
             ELSE h2h[pair][2] - h2h[pair][1]
        ELSE 0

\* the winner's slot taken from the role alone
WinnerIndexByRole(p1, p1_won, pair) == IF p1_won THEN 1 ELSE 2

\* the winner's slot of the pair (lines 93-96), 1-based
WinnerIndex(p1, p1_won, pair) ==
    IF (p1_won /\ p1 = pair[1]) \/ (~p1_won /\ p1 # pair[1]) THEN 1 ELSE 2

UpdateH2H(h2h, p1, p2, p1_won) ==
    LET pair == SortedPair(p1, p2)
        h1   == IF pair \in DOMAIN h2h THEN h2h ELSE (pair :> <<0, 0>>) @@ h2h
        w    == WinnerIndex(p1, p1_won, pair)
    IN  [h1 EXCEPT ![pair][w] = @ + 1]

\* the surface cell as it is, missing or not
RowSurfaceRaw(row) == row.surface

\* line 63: a missing surface is taken as "Unknown"
RowSurface(row) == IF row.surface = NaSurface THEN UnknownSurface ELSE row.surface

\* the loop body with both updates made before the two reads
LoopBodyUpdateFirst(st, row) ==
    LET p1      == row.p1_name
        p2      == row.p2_name
        surface == RowSurface(row)
        p1_won  == row.target = 1
        sh1     == update_surface_history(st.surface_history, p1, surface, p1_won)
        sh2     == update_surface_history(sh1, p2, surface, ~p1_won)
        pct1    == get_surface_win_pct(sh2, p1, surface)
        pct2    == get_surface_win_pct(sh2, p2, surface)
        diff    == H2HDiffOf(st.h2h_history, p1, p2)
    IN  [ surface_history |-> sh2,
          h2h_history     |-> UpdateH2H(st.h2h_history, p1, p2, p1_won),
          p1_surface_pct  |-> Append(st.p1_surface_pct, pct1),
          p2_surface_pct  |-> Append(st.p2_surface_pct, pct2),
          h2h_diff        |-> Append(st.h2h_diff, diff) ]

\* one iteration of the streaming loop (lines 60-98) on the loop's state
LoopBody(st, row) ==
    LET p1      == row.p1_name
        p2      == row.p2_name
        surface == RowSurface(row)
        p1_won  == row.target = 1
        pct1    == get_surface_win_pct(st.surface_history, p1, surface)
        pct2    == get_surface_win_pct(st.surface_history, p2, surface)
        diff    == H2HDiffOf(st.h2h_history, p1, p2)
        sh1     == update_surface_history(st.surface_history, p1, surface, p1_won)
        sh2     == update_surface_history(sh1, p2, surface, ~p1_won)
    IN  [ surface_history |-> sh2,
          h2h_history     |-> UpdateH2H(st.h2h_history, p1, p2, p1_won),
          p1_surface_pct  |-> Append(st.p1_surface_pct, pct1),
          p2_surface_pct  |-> Append(st.p2_surface_pct, pct2),
          h2h_diff        |-> Append(st.h2h_diff, diff) ]

\* histories and lists that outlive the call
LoopStartStale ==
    [ surface_history |-> surface_history,
      h2h_history     |-> h2h_history,
      p1_surface_pct  |-> p1_surface_pct,
      p2_surface_pct  |-> p2_surface_pct,
      h2h_diff        |-> h2h_diff ]

\* the loop's state before the first row (lines 30-35)
LoopStart ==
    [ surface_history |-> EmptyHistory,
      h2h_history     |-> EmptyHistory,
      p1_surface_pct  |-> <<>>,
      p2_surface_pct  |-> <<>>,
      h2h_diff        |-> <<>> ]

RECURSIVE LoopOver(_, _)
LoopOver(st, rows) ==
    IF rows = <<>> THEN st ELSE LoopOver(LoopBody(st, Head(rows)), Tail(rows))

-----------------------------------------------------------------------------
(* features/rolling.py: compute_rolling_features                           *)

\* the source columns averaged; "won" feeds recent_win_rate_W, every other
\* metric m feeds recent_<m>_avg_W
metrics == <<"won", "games_won", "games_lost", "sets_won", "sets_lost">>
MetricSet == {metrics[i] : i \in 1..Len(metrics)}
Windows == {RECENT_FORM_WINDOWS[i] : i \in 1..Len(RECENT_FORM_WINDOWS)}
RecentCols == MetricSet \X Windows

\* the player-1 and player-2 views of row k (lines 26-59); pos is the
\* event's place in the concatenated frame
P1Event(r, k, pos) ==
    [ player |-> r.p1_name, opponent |-> r.p2_name, date |-> r.tourney_date,
      match_index |-> k, is_p1 |-> TRUE, pos |-> pos,
      won |-> r.target,
      games_won |-> r.p1_games_won, games_lost |-> r.p1_games_lost,
      sets_won |-> r.p1_sets_won, sets_lost |-> r.p1_sets_lost ]

P2Event(r, k, pos) ==
    [ player |-> r.p2_name, opponent |-> r.p1_name, date |-> r.tourney_date,
      match_index |-> k, is_p1 |-> FALSE, pos |-> pos,
      won |-> 1 - r.target,
      games_won |-> r.p2_games_won, games_lost |-> r.p2_games_lost,
      sets_won |-> r.p2_sets_won, sets_lost |-> r.p2_sets_lost ]

\* pd.concat([df_p1, df_p2], ignore_index=True)
ConcatEvents(d) ==
    Stored([j \in 1..(2 * Len(d)) |->
               IF j <= Len(d) THEN P1Event(d[j], j, j)
               ELSE P2Event(d[j - Len(d)], j - Len(d), j)])

DateBefore(a, b) == a # NaT /\ (b = NaT \/ a < b)

\* the order by player and date alone, ties left in the order of the
\* concatenated frame
EventBeforeNoIndex(a, b) ==
    \/ a.player < b.player
    \/ a.player = b.player /\ DateBefore(a.date, b.date)
    \/ a.player = b.player /\ a.date = b.date /\ a.pos < b.pos

\* the order of sort_values(['player', 'date', 'match_index']): a stable
\* lexicographic sort, NaT dates last
EventBefore(a, b) ==
    \/ a.player < b.player
    \/ a.player = b.player /\ DateBefore(a.date, b.date)
    \/ a.player = b.player /\ a.date = b.date /\ a.match_index < b.match_index
    \/ a.player = b.player /\ a.date = b.date /\ a.match_index = b.match_index
       /\ a.pos < b.pos

SortEvents(ev) ==
    LET rank == Stored([j \in 1..Len(ev) |->
                    Cardinality({i \in 1..Len(ev) : EventBefore(ev[i], ev[j])})])
    IN  Stored([r \in 1..Len(ev) |->
                   ev[CHOOSE j \in 1..Len(ev) : rank[j] = r - 1]])

\* the column left unshifted: every window ends at the current event
NoShift(col) == col

\* x.shift(1) on one column of a group
Shift1(col) ==
    IF col = <<>> THEN <<>> ELSE <<NaN>> \o SubSeq(col, 1, Len(col) - 1)

\* a window one event too long
RollingMeanWide(col, W) ==
    [i \in 1..Len(col) |->
        LET vals == SelectSeq(SubSeq(col, Max2(1, i - W), i),
                              LAMBDA x : ~IsNaN(x))
        IN  IF Len(vals) >= 1
            THEN Frac(SumSeq([n \in 1..Len(vals) |-> vals[n][1]]), Len(vals))
            ELSE NaN]

\* col.rolling(window=W, min_periods=1).mean()
RollingMean(col, W) ==
    [i \in 1..Len(col) |->
        LET vals == SelectSeq(SubSeq(col, Max2(1, i - W + 1), i),
                              LAMBDA x : ~IsNaN(x))
        IN  IF Len(vals) >= 1
            THEN Frac(SumSeq([n \in 1..Len(vals) |-> vals[n][1]]), Len(vals))
            ELSE NaN]

\* one metric of one player's group, in the group's order
GroupColumn(pdf, player, m) ==
    LET g == SelectSeq(pdf, LAMBDA e : e.player = player)
    IN  [i \in 1..Len(g) |-> <<g[i][m], 1>>]

\* the rolling mean with min_periods left at the window's length
ShiftedRollingFull(col, W) ==
    [i \in 1..Len(col) |->
        IF i > W THEN RollingMean(Shift1(col), W)[i] ELSE NaN]

\* the lambda of line 80 applied to a column
ShiftedRolling(col, W) == RollingMean(Shift1(col), W)

\* the rolling columns before any fill: for each event position, each
\* <<metric, window>>
RollingStats(pdf) ==
    LET players == {pdf[j].player : j \in 1..Len(pdf)}
        stat == StoredMap([pl \in players |-> StoredMap([c \in RecentCols |->
                    Stored(ShiftedRolling(GroupColumn(pdf, pl, c[1]), c[2]))])])
        gpos == Stored([j \in 1..Len(pdf) |->
                    Cardinality({i \in 1..j : pdf[i].player = pdf[j].player})])
    IN  Stored([j \in 1..Len(pdf) |-> StoredMap([c \in RecentCols |->
            stat[pdf[j].player][c][gpos[j]]])])

RatAdd(a, b) == Frac(a[1] * b[2] + b[1] * a[2], a[2] * b[2])

RECURSIVE RatSum(_)
RatSum(s) == IF s = <<>> THEN <<0, 1>> ELSE RatAdd(Head(s), RatSum(Tail(s)))

\* a mean that counts the missing values as rows of value 0
ColumnMeanOverAll(col) ==
    LET vals == SelectSeq(col, LAMBDA x : ~IsNaN(x))
    IN  IF vals = <<>> THEN NaN
        ELSE Frac(RatSum(vals)[1], RatSum(vals)[2] * Len(col))

\* Series.mean(): the mean of the values that are not NaN, NaN if none
ColumnMean(col) ==
    LET vals == SelectSeq(col, LAMBDA x : ~IsNaN(x))
    IN  IF vals = <<>> THEN NaN
        ELSE Frac(RatSum(vals)[1], RatSum(vals)[2] * Len(vals))

\* lines 94-102: win-rate columns default to DEFAULT_WIN_PCT, the other
\* columns to the mean of the whole column
FillStats(stats) ==
    LET fill == StoredMap([c \in RecentCols |->
                    IF c[1] = "won" THEN DEFAULT_WIN_PCT
                    ELSE ColumnMean([j \in 1..Len(stats) |-> stats[j][c]])])
    IN  Stored([j \in 1..Len(stats) |-> StoredMap([c \in RecentCols |->
            IF IsNaN(stats[j][c]) THEN fill[c] ELSE stats[j][c]])])

\* player_df as it stands before the merge: the sorted events, each with
\* its filled rolling columns
PlayerFrame(d) ==
    LET pdf    == SortEvents(ConcatEvents(d))
        filled == FillStats(RollingStats(pdf))
    IN  Stored([j \in 1..Len(pdf) |-> [event |-> pdf[j], recent |-> filled[j]]])

\* the features taken by position in the sorted player frame
JoinedFeaturesByPosition(pf, k, is_p1) ==
    pf[IF is_p1 THEN k ELSE k + (Len(pf) \div 2)].recent

\* lines 106-121: the p1 (is_p1) or p2 features joined on match_index k
JoinedFeatures(pf, k, is_p1) ==
    LET hits == {j \in 1..Len(pf) :
                    pf[j].event.match_index = k /\ pf[j].event.is_p1 = is_p1}
    IN  pf[CHOOSE j \in hits : TRUE].recent

compute_rolling_features(d, pf) ==
    [k \in 1..Len(d) |->
        [ row       |-> d[k],
          p1_recent |-> JoinedFeatures(pf, k, TRUE),
          p2_recent |-> JoinedFeatures(pf, k, FALSE) ]]

\* lines 101-108: attach the streamed columns, then the rolling columns
AttachFeatures(d, st, pf) ==
    LET rolled == compute_rolling_features(d, pf)
    IN  [k \in 1..Len(d) |->
            [ row                |-> d[k],
              p1_surface_win_pct |-> st.p1_surface_pct[k],
              p2_surface_win_pct |-> st.p2_surface_pct[k],
              h2h_diff           |-> st.h2h_diff[k],
              p1_recent          |-> rolled[k].p1_recent,
              p2_recent          |-> rolled[k].p2_recent ]]

\* add_features as one function of its table and of the sort's indexer
add_features(tbl, ord) ==
    LET d  == SortedFrame(tbl, ord)
        st == LoopOver(LoopStart, d)
    IN  [ df              |-> AttachFeatures(d, st, PlayerFrame(d)),
          surface_history |-> st.surface_history,
          h2h_history     |-> st.h2h_history ]

-----------------------------------------------------------------------------
(* Input tables                                                            *)

Players == {1, 2, 3}
KnownSurfaces == {"Hard", "Clay"}
Surfaces == KnownSurfaces \cup {UnknownSurface, NaSurface}

\* "6-4 6-3", "7-6(5) 3-6 6-4", "6-4 2-0 RET"
ScoreStraight == <<"6", "-", "4", " ", "6", "-", "3">>
ScoreTiebreak ==
    <<"7", "-", "6", "(", "5", ")", " ", "3", "-", "6", " ", "6", "-", "4">>
ScoreRetired == <<"6", "-", "4", " ", "2", "-", "0", " ", "R", "E", "T">>
ScoreCycle == <<ScoreStraight, ScoreTiebreak, ScoreRetired>>

RawRow(date, surface, winner, loser, score) ==
    [ tourney_date |-> date, surface |-> surface, winner_name |-> winner,
      loser_name |-> loser, score |-> score ]

\* the row positions a table may have: one draw of the stream each
Positions == 1..Len(PCG64Stream(SEED))

\* tables of exactly k rows whose i-th row is drawn from rows[i]
RECURSIVE TablesOfLen(_, _)
TablesOfLen(rows, k) ==
    IF k = 0 THEN {<<>>}
    ELSE {Append(t, r) : t \in TablesOfLen(rows, k - 1), r \in rows[k]}

\* tables of at most n rows
Tables(rows, n) == UNION {TablesOfLen(rows, k) : k \in 0..n}

\* streaming tables: every pairing of three players on the known surfaces,
\* later rows dated earlier (the sort reverses the table), the score set
\* by the position
StreamRows ==
    [i \in Positions |->
        {RawRow(20230120 - i, x[1], x[2], x[3], ScoreCycle[(i % 3) + 1]) :
            x \in {y \in KnownSurfaces \X Players \X Players : y[2] # y[3]}}]

\* surface tables: two players on every surface, known, "Unknown" or missing
SurfaceRows ==
    [i \in Positions |->
        {RawRow(20230100 + i, x[1], x[2], x[3], ScoreStraight) :
            x \in {y \in Surfaces \X {1, 2} \X {1, 2} : y[2] # y[3]}}]

\* long histories: player 1 meets player 2, on every third date player 3;
\* either side may win
HistoryRows ==
    [i \in Positions |->
        LET opp == IF i % 3 = 0 THEN 3 ELSE 2
        IN  {RawRow(20230100 + i, "Hard", 1, opp, ScoreStraight),
             RawRow(20230100 + i, "Hard", opp, 1, ScoreTiebreak)}]

\* tables with equal, unordered and invalid dates
DatedRows ==
    [i \in Positions |->
        {RawRow(x[1], "Hard", x[2], x[3], ScoreStraight) :
            x \in {y \in {20230101, 20230102, 20231301} \X {1, 2} \X {2, 3} :
                      y[2] # y[3]}}]

\* score tokens: sets won by either side or drawn, a tiebreak, parts that
\* are no integers or are empty, one and three parts, the markers alone and
\* glued to a set, a sign, an underscore, stray parentheses, nothing
ScoreTokens ==
    {<<"6", "-", "4">>,
     <<"4", "-", "6">>,
     <<"6", "-", "6">>,
     <<"7", "-", "6", "(", "5", ")">>,
     <<"6", "-", "x">>,
     <<"x", "-", "6">>,
     <<"6", "-">>,
     <<"-", "6">>,
     <<"6">>,
     <<"6", "-", "4", "-", "2">>,
     <<"R", "E", "T">>,
     <<"W", "/", "O">>,
     <<"d", "e", "f", ".">>,
     <<"6", "-", "4", "R", "E", "T">>,
     <<"+", "6", "-", "4">>,
     <<"1", "_", "0", "-", "8">>,
     <<"6", "-", "4", "(">>,
     <<"(", "6", "-", "4">>,
     <<"6", "(", "5", ")", "-", "4">>,
     <<>>}

\* " ".join(toks)
RECURSIVE JoinTokens(_)
JoinTokens(toks) ==
    IF toks = <<>> THEN <<>>
    ELSE IF Len(toks) = 1 THEN toks[1]
    ELSE toks[1] \o <<" ">> \o JoinTokens(Tail(toks))

\* the sequences of exactly k tokens
RECURSIVE TokenSeqs(_)
TokenSeqs(k) ==
    IF k = 0 THEN {<<>>}
    ELSE {Append(t, x) : t \in TokenSeqs(k - 1), x \in ScoreTokens}

\* the score strings of at most n tokens
ScoreStrings(n) == {JoinTokens(t) : t \in UNION {TokenSeqs(k) : k \in 0..n}}

-----------------------------------------------------------------------------
(* The pipeline of predictor.main                                          *)

InitWith(tables) ==
    /\ data \in tables
    /\ pc = "load"
    /\ run = 1
    /\ processed_data = <<>>
    /\ order = <<>>
    /\ df = <<>>
    /\ row_i = 0
    /\ surface_history = EmptyHistory
    /\ h2h_history = EmptyHistory
    /\ p1_surface_pct = <<>>
    /\ p2_surface_pct = <<>>
    /\ h2h_diff = <<>>
    /\ player_df = <<>>
    /\ final_df = <<>>
    /\ previous = <<>>

Init == InitWith(Tables(StreamRows, MaxMatches))
InitSurface == InitWith(Tables(SurfaceRows, MaxMatches))
InitRolling == InitWith(TablesOfLen(HistoryRows, MaxEvents))
InitDated == InitWith(Tables(DatedRows, MaxMatches))
InitParse ==
    InitWith({<<RawRow(20230101, "Hard", 1, 2, score)>> :
                 score \in ScoreStrings(MaxTokens)})

\* preprocess.preprocess_data(data)
Preprocess ==
    /\ pc = "load"
    /\ processed_data' = preprocess_data(data)
    /\ pc' = "preprocessed"
    /\ UNCHANGED <<run, data, order, df, row_i, surface_history, h2h_history,
                   p1_surface_pct, p2_surface_pct, h2h_diff, player_df,
                   final_df, previous>>

\* the loop's state as the variables hold it
LoopState ==
    [ surface_history |-> surface_history,
      h2h_history     |-> h2h_history,
      p1_surface_pct  |-> p1_surface_pct,
      p2_surface_pct  |-> p2_surface_pct,
      h2h_diff        |-> h2h_diff ]

SetLoopState(st) ==
    /\ surface_history' = st.surface_history
    /\ h2h_history' = st.h2h_history
    /\ p1_surface_pct' = st.p1_surface_pct
    /\ p2_surface_pct' = st.p2_surface_pct
    /\ h2h_diff' = st.h2h_diff

\* the start without the copy of line 23: the conversion, the sort and the
\* new index land in the caller's table
AddFeaturesStartInPlace ==
    /\ pc = "preprocessed"
    /\ order' \in IF run = 1
                  THEN sort_values([k \in 1..Len(processed_data) |->
                           to_datetime(processed_data[k].tourney_date)])
                  ELSE {order}
    /\ df' = SortedFrame(processed_data, order')
    /\ processed_data' = df'
    /\ SetLoopState(LoopStart)
    /\ row_i' = 0
    /\ pc' = "loop"
    /\ UNCHANGED <<run, data, player_df, final_df, previous>>

\* add_features, lines 23-35: copy, convert the dates, sort, re-index and
\* start with empty histories.  The sort is a deterministic algorithm: on
\* the column it has sorted before it returns the same indexer.
AddFeaturesStart ==
    /\ pc = "preprocessed"
    /\ order' \in IF run = 1
                  THEN sort_values([k \in 1..Len(processed_data) |->
                           to_datetime(processed_data[k].tourney_date)])
                  ELSE {order}
    /\ df' = SortedFrame(processed_data, order')
    /\ SetLoopState(LoopStart)
    /\ row_i' = 0
    /\ pc' = "loop"
    /\ UNCHANGED <<run, data, processed_data, player_df, final_df, previous>>

\* add_features, lines 60-98: one row of the streaming pass
AddFeaturesRow ==
    /\ pc = "loop"
    /\ row_i < Len(df)
    /\ SetLoopState(LoopBody(LoopState, df[row_i + 1]))
    /\ row_i' = row_i + 1
    /\ UNCHANGED <<pc, run, data, processed_data, order, df, player_df,
                   final_df, previous>>

\* add_features, lines 100-108: attach the columns, add the rolling
\* features and return
AddFeaturesFinish ==
    /\ pc = "loop"
    /\ row_i = Len(df)
    /\ player_df' = PlayerFrame(df)
    /\ final_df' = AttachFeatures(df, LoopState, player_df')
    /\ pc' = "done"
    /\ UNCHANGED <<run, data, processed_data, order, df, row_i,
                   surface_history, h2h_history, p1_surface_pct,
                   p2_surface_pct, h2h_diff, previous>>

\* the pipeline is run once more on the same raw table
Rerun ==
    /\ pc = "done"
    /\ run = 1
    /\ previous' = <<final_df, surface_history, h2h_history>>
    /\ run' = 2
    /\ pc' = "load"
    /\ UNCHANGED <<data, processed_data, order, df, row_i, surface_history,
                   h2h_history, p1_surface_pct, p2_surface_pct, h2h_diff,
                   player_df, final_df>>

Next == Preprocess \/ AddFeaturesStart \/ AddFeaturesRow \/ AddFeaturesFinish

NextRerun == Next \/ Rerun

Spec == Init /\ [][Next]_vars
SpecSurface == InitSurface /\ [][Next]_vars
SpecRolling == InitRolling /\ [][Next]_vars
SpecRerun == InitDated /\ [][NextRerun]_vars
SpecParse == InitParse /\ [][Next]_vars

-----------------------------------------------------------------------------
(* Properties                                                              *)

Winner(r) == IF r.target = 1 THEN r.p1_name ELSE r.p2_name
Plays(r, pl) == pl \in {r.p1_name, r.p2_name}
SurfaceKnown(r) == r.surface \notin {UnknownSurface, NaSurface}
SamePair(r, q) == {r.p1_name, r.p2_name} = {q.p1_name, q.p2_name}

\* the earlier matches of the processed order that pl played on row k's surface
PriorOnSurface(k, pl) ==
    {j \in 1..(k - 1) : Plays(df[j], pl) /\ df[j].surface = df[k].surface}

\* v is wins/total of pl over PriorOnSurface(k, pl), 0.5 when there is none
IsPriorSurfacePct(v, k, pl) ==
    LET prior == PriorOnSurface(k, pl)
        wins  == Cardinality({j \in prior : Winner(df[j]) = pl})
    IN  IF prior = {} THEN v = <<1, 2>>
        ELSE v[2] > 0 /\ v[1] * Cardinality(prior) = wins * v[2]

\* C1: on a known surface, each side's surface win pct of the match at
\* position k is that player's wins/total over the matches before k that
\* the player played on the same surface, in either role, and 0.5 when
\* there is none; match k itself never counts.
C1_SurfacePctFromPriorMatches ==
    /\ \A k \in 1..Len(p1_surface_pct) :
          SurfaceKnown(df[k]) =>
             /\ IsPriorSurfacePct(p1_surface_pct[k], k, df[k].p1_name)
             /\ IsPriorSurfacePct(p2_surface_pct[k], k, df[k].p2_name)
    /\ \A k \in 1..Len(final_df) :
          SurfaceKnown(df[k]) =>
             /\ IsPriorSurfacePct(final_df[k].p1_surface_win_pct, k, df[k].p1_name)
             /\ IsPriorSurfacePct(final_df[k].p2_surface_win_pct, k, df[k].p2_name)

\* a returned row whose player 1 won two earlier matches on the surface, one
\* in each role, and whose player 2 lost one
C1_Witness ==
    /\ pc = "done"
    /\ \E k \in 1..Len(final_df) :
          LET pl    == df[k].p1_name
              prior == PriorOnSurface(k, pl)
          IN  /\ SurfaceKnown(df[k])
              /\ Cardinality(prior) = 2
              /\ \E j \in prior : df[j].p1_name = pl
              /\ \E j \in prior : df[j].p2_name = pl
              /\ Cardinality({j \in prior : Winner(df[j]) = pl}) = 2
              /\ final_df[k].p1_surface_win_pct = <<1, 1>>
              /\ final_df[k].p2_surface_win_pct = <<0, 1>>

\* the earlier matches between the two players of row k
PriorMeetings(k) == {j \in 1..(k - 1) : SamePair(df[j], df[k])}

PriorDiff(k) ==
    Cardinality({j \in PriorMeetings(k) : Winner(df[j]) = df[k].p1_name})
    - Cardinality({j \in PriorMeetings(k) : Winner(df[j]) = df[k].p2_name})

\* C2: h2h_diff of the match at position k is the number of earlier matches
\* between the same two players that p1 won minus the number p2 won,
\* whatever the roles were then; 0 when they never met; match k not counted.
C2_H2HDiffFromPriorMeetings ==
    /\ \A k \in 1..Len(h2h_diff) : h2h_diff[k] = PriorDiff(k)
    /\ \A k \in 1..Len(final_df) : final_df[k].h2h_diff = PriorDiff(k)

\* a returned row whose player 1 lost both earlier meetings, once in each role
C2_Witness ==
    /\ pc = "done"
    /\ \E k \in 1..Len(final_df) :
          /\ Cardinality(PriorMeetings(k)) = 2
          /\ \E j \in PriorMeetings(k) : df[j].p1_name = df[k].p1_name
          /\ \E j \in PriorMeetings(k) : df[j].p1_name = df[k].p2_name
          /\ final_df[k].h2h_diff = -2

\* the earlier matches of the processed order that pl played
PriorRows(k, pl) == {j \in 1..(k - 1) : Plays(df[j], pl)}

\* C5: in the row of a player's first match of the processed order, that
\* player's surface win pct is 0.5, that player's rolling win rate is 0.5
\* for every window, and h2h_diff is 0.
C5_ColdStart ==
    pc = "done" =>
       \A k \in 1..Len(final_df) :
          /\ PriorRows(k, df[k].p1_name) = {} =>
                /\ final_df[k].p1_surface_win_pct = <<1, 2>>
                /\ \A W \in Windows : final_df[k].p1_recent[<<"won", W>>] = <<1, 2>>
                /\ final_df[k].h2h_diff = 0
          /\ PriorRows(k, df[k].p2_name) = {} =>
                /\ final_df[k].p2_surface_win_pct = <<1, 2>>
                /\ \A W \in Windows : final_df[k].p2_recent[<<"won", W>>] = <<1, 2>>
                /\ final_df[k].h2h_diff = 0

\* a newcomer as player 1 of the third row against a player who won both
\* earlier rows
C5_Witness ==
    /\ pc = "done"
    /\ \E k \in 1..Len(final_df) :
          /\ k = 3
          /\ PriorRows(k, df[k].p1_name) = {}
          /\ Cardinality(PriorRows(k, df[k].p2_name)) = 2
          /\ final_df[k].p2_surface_win_pct = <<1, 1>>
          /\ final_df[k].p2_recent[<<"won", 5>>] = <<1, 1>>
          /\ final_df[k].p1_recent[<<"won", 5>>] = <<1, 2>>

\* the sum of the values of a function with a finite domain
RECURSIVE SumFn(_)
SumFn(f) ==
    IF DOMAIN f = {} THEN 0
    ELSE LET x == CHOOSE y \in DOMAIN f : TRUE
         IN  f[x] + SumFn([z \in DOMAIN f \ {x} |-> f[z]])

SurfaceTotals ==
    SumFn([pl \in DOMAIN surface_history |->
              SumFn([sf \in DOMAIN surface_history[pl] |->
                        surface_history[pl][sf][2]])])

H2HTotals ==
    SumFn([pair \in DOMAIN h2h_history |->
              h2h_history[pair][1] + h2h_history[pair][2]])

\* C6: once the pass has consumed n rows, whatever their surfaces, the
\* totals of the surface state add up to 2n and the counters of the
\* head-to-head state add up to n.
C6_StateGrowth == SurfaceTotals = 2 * row_i /\ H2HTotals = row_i

\* three rows consumed, one on "Unknown" and one with no surface
C6_Witness ==
    /\ row_i = 3
    /\ \E j \in 1..row_i : df[j].surface = UnknownSurface
    /\ \E j \in 1..row_i : df[j].surface = NaSurface
    /\ SurfaceTotals = 6

\* wins/total of the entry when it exists with total > 0, else 0.5
IsEntryPct(v, sh, pl, sf) ==
    IF pl \in DOMAIN sh /\ sf \in DOMAIN sh[pl] /\ sh[pl][sf][2] > 0
    THEN v[2] > 0 /\ v[1] * sh[pl][sf][2] = sh[pl][sf][1] * v[2]
    ELSE v = <<1, 2>>

\* C10: a row whose surface is "Unknown" or missing gets 0.5 on both sides
\* whatever the histories hold; a row on a known surface gets, per side,
\* wins/total of the player's entry when its total > 0 and 0.5 otherwise.
C10_UnknownSurfaceIsNeutral ==
    [][ (pc = "loop" /\ row_i' = row_i + 1) =>
          LET r  == df[row_i']
              v1 == p1_surface_pct'[row_i']
              v2 == p2_surface_pct'[row_i']
          IN  IF r.surface \in {UnknownSurface, NaSurface}
              THEN v1 = <<1, 2>> /\ v2 = <<1, 2>>
              ELSE /\ IsEntryPct(v1, surface_history, r.p1_name, r.surface)
                   /\ IsEntryPct(v2, surface_history, r.p2_name, r.surface)
      ]_vars

\* the second row has no surface, the first was on "Unknown" and is recorded
\* under "Unknown" as a win for the second row's player 1
C10_Witness ==
    /\ row_i = 2
    /\ df[1].surface = UnknownSurface
    /\ df[2].surface = NaSurface
    /\ Winner(df[1]) = df[2].p1_name
    /\ surface_history[df[2].p1_name][UnknownSurface][2] = 2
    /\ p1_surface_pct[2] = <<1, 2>>
    /\ p2_surface_pct[2] = <<1, 2>>

\* the value of metric m on pl's side of row r
SideValue(r, pl, m) ==
    IF r.p1_name = pl
    THEN CASE m = "won"        -> r.target
           [] m = "games_won"  -> r.p1_games_won
           [] m = "games_lost" -> r.p1_games_lost
           [] m = "sets_won"   -> r.p1_sets_won
           [] m = "sets_lost"  -> r.p1_sets_lost
    ELSE CASE m = "won"        -> 1 - r.target
           [] m = "games_won"  -> r.p2_games_won
           [] m = "games_lost" -> r.p2_games_lost
           [] m = "sets_won"   -> r.p2_sets_won
           [] m = "sets_lost"  -> r.p2_sets_lost

\* the last W of pl's matches before row k
TrailingWindow(k, pl, W) ==
    {j \in PriorRows(k, pl) :
        Cardinality({i \in PriorRows(k, pl) : i > j}) < W}

\* v is the mean of metric m on pl's side over the rows J
IsMeanOver(v, J, pl, m) ==
    /\ v[2] > 0
    /\ v[1] * Cardinality(J) = SumFn([j \in J |-> SideValue(df[j], pl, m)]) * v[2]

\* C4: for a player with i >= 1 earlier matches, every rolling column of
\* window W is the mean of the metric over the player's last min(W, i)
\* earlier matches, whichever role the player had in them; the window is
\* shortened, never padded, and the match itself is not in it.
C4_WindowMeans ==
    pc = "done" =>
       \A k \in 1..Len(final_df) : \A c \in RecentCols :
          /\ PriorRows(k, df[k].p1_name) # {} =>
                IsMeanOver(final_df[k].p1_recent[c],
                           TrailingWindow(k, df[k].p1_name, c[2]),
                           df[k].p1_name, c[1])
          /\ PriorRows(k, df[k].p2_name) # {} =>
                IsMeanOver(final_df[k].p2_recent[c],
                           TrailingWindow(k, df[k].p2_name, c[2]),
                           df[k].p2_name, c[1])

\* a player with eleven earlier matches, in both roles, whose window of 10
\* leaves out a match that would change the mean, and whose windows of 5
\* and 10 differ
C4_Witness ==
    /\ pc = "done"
    /\ \E k \in 1..Len(final_df) :
          LET pl    == df[k].p2_name
              prior == PriorRows(k, pl)
              w10   == TrailingWindow(k, pl, 10)
          IN  /\ Cardinality(prior) = 11
              /\ Cardinality(w10) = 10
              /\ \E j \in prior : df[j].p1_name = pl
              /\ \E j \in prior : df[j].p2_name = pl
              /\ SumFn([j \in prior |-> SideValue(df[j], pl, "games_won")]) * 10
                    # SumFn([j \in w10 |-> SideValue(df[j], pl, "games_won")]) * 11
              /\ final_df[k].p2_recent[<<"games_won", 5>>]
                    # final_df[k].p2_recent[<<"games_won", 10>>]

\* row r with its outcome reversed and its tallies set to nothing
OtherOutcome(r) ==
    [r EXCEPT !.target = 1 - r.target,
              !.p1_games_won = 0, !.p1_games_lost = 0,
              !.p1_sets_won = 0, !.p1_sets_lost = 0,
              !.p2_games_won = 0, !.p2_games_lost = 0,
              !.p2_sets_won = 0, !.p2_sets_lost = 0]

\* the sorted table with another outcome for row k and every later row
ChangedFrom(k) ==
    [j \in 1..Len(df) |-> IF j >= k THEN OtherOutcome(df[j]) ELSE df[j]]

\* C3: every rolling column of every match is decided by the strictly
\* earlier matches alone: another outcome or other tallies for the match
\* itself and for the later matches leave the value as it is.
C3_RollingNoLeakage ==
    pc = "done" =>
       \A k \in 1..Len(final_df) :
          LET changed == ChangedFrom(k)
              again   == compute_rolling_features(changed, PlayerFrame(changed))
          IN  /\ again[k].p1_recent = final_df[k].p1_recent
              /\ again[k].p2_recent = final_df[k].p2_recent

\* row r with its two sides exchanged and its target negated
Relabelled(r) ==
    [r EXCEPT !.p1_name = r.p2_name, !.p2_name = r.p1_name,
              !.target = 1 - r.target,
              !.p1_games_won = r.p2_games_won, !.p1_games_lost = r.p2_games_lost,
              !.p1_sets_won = r.p2_sets_won, !.p1_sets_lost = r.p2_sets_lost,
              !.p2_games_won = r.p1_games_won, !.p2_games_lost = r.p1_games_lost,
              !.p2_sets_won = r.p1_sets_won, !.p2_sets_lost = r.p1_sets_lost]

\* the features of one returned row
FeaturesOf(f) ==
    <<f.p1_surface_win_pct, f.p2_surface_win_pct, f.h2h_diff, f.p1_recent,
      f.p2_recent>>

\* C7: relabelling the two sides of one match (names and tallies exchanged,
\* target negated) negates that match's h2h_diff, exchanges its p1 and p2
\* surface and rolling features, and changes neither the features of any
\* other match nor the final surface and head-to-head states.
C7_RoleSymmetry ==
    pc = "done" =>
       \A m \in 1..Len(processed_data) :
          LET other == add_features(
                          [processed_data EXCEPT ![order[m]] = Relabelled(@)],
                          order)
          IN  /\ other.df[m].h2h_diff = -final_df[m].h2h_diff
              /\ other.df[m].p1_surface_win_pct = final_df[m].p2_surface_win_pct
              /\ other.df[m].p2_surface_win_pct = final_df[m].p1_surface_win_pct
              /\ other.df[m].p1_recent = final_df[m].p2_recent
              /\ other.df[m].p2_recent = final_df[m].p1_recent
              /\ \A k \in 1..Len(final_df) :
                    k # m => FeaturesOf(other.df[k]) = FeaturesOf(final_df[k])
              /\ other.surface_history = surface_history
              /\ other.h2h_history = h2h_history

\* a third row between players who met twice, with a head-to-head lead, with
\* surface records and rolling values that differ between the two sides
C7_Witness ==
    /\ pc = "done"
    /\ Len(final_df) = 3
    /\ Cardinality(PriorMeetings(3)) = 2
    /\ final_df[3].h2h_diff = 2
    /\ final_df[3].p1_surface_win_pct # final_df[3].p2_surface_win_pct
    /\ final_df[3].p1_recent # final_df[3].p2_recent

\* C8: the pass takes the matches in non-decreasing date order, and two
\* matches of the same date in the order they had in the input table.
C8_DateThenIngestionOrder ==
    pc \in {"loop", "done"} =>
       \A i \in 1..Len(order) : \A j \in 1..Len(order) :
          i < j =>
             /\ ~DateBefore(df[j].tourney_date, df[i].tourney_date)
             /\ df[i].tourney_date = df[j].tourney_date => order[i] < order[j]

RECURSIVE RatSumFn(_)
RatSumFn(f) ==
    IF DOMAIN f = {} THEN <<0, 1>>
    ELSE LET x == CHOOSE y \in DOMAIN f : TRUE
         IN  RatAdd(f[x], RatSumFn([z \in DOMAIN f \ {x} |-> f[z]]))

\* the mean of column c's metric over pl's last c[2] matches before row k
WindowMean(k, pl, c) ==
    LET J == TrailingWindow(k, pl, c[2])
    IN  Frac(SumFn([j \in J |-> SideValue(df[j], pl, c[1])]), Cardinality(J))

\* the player events <<row, player>> that have an earlier event of the player
EventsWithPrior ==
    {e \in (1..Len(df)) \X Players :
        Plays(df[e[1]], e[2]) /\ PriorRows(e[1], e[2]) # {}}

\* the mean of column c over the events that have a rolling value; the
\* mean of no value at all is missing
GlobalMean(c) ==
    LET s == RatSumFn([e \in EventsWithPrior |-> WindowMean(e[1], e[2], c)])
    IN  IF EventsWithPrior = {} THEN NaN
        ELSE Frac(s[1], s[2] * Cardinality(EventsWithPrior))

MagnitudeCols == {c \in RecentCols : c[1] # "won"}

\* C11: every magnitude column (games/sets won/lost, each window) of an
\* event with no prior event of its player holds the mean of that column's
\* rolling values over all events of all players that have a prior event
\* (a missing value when no event has one).
C11_ColdStartGlobalMean ==
    pc = "done" =>
       \A k \in 1..Len(final_df) : \A c \in MagnitudeCols :
          /\ PriorRows(k, df[k].p1_name) = {} =>
                final_df[k].p1_recent[c] = GlobalMean(c)
          /\ PriorRows(k, df[k].p2_name) = {} =>
                final_df[k].p2_recent[c] = GlobalMean(c)

\* a newcomer in the third row, filled with a mean over three events of the
\* two other players that is not a whole number and is no single event's value
C11_Witness ==
    /\ pc = "done"
    /\ Len(final_df) = 3
    /\ PriorRows(3, df[3].p1_name) = {}
    /\ Cardinality(EventsWithPrior) = 3
    /\ Cardinality({e[2] : e \in EventsWithPrior}) = 2
    /\ final_df[3].p1_recent[<<"games_won", 5>>][2] > 1
    /\ \A e \in EventsWithPrior :
          WindowMean(e[1], e[2], <<"games_won", 5>>)
             # final_df[3].p1_recent[<<"games_won", 5>>]

\* C12: every rolling column of every returned row holds a number, never a
\* missing value, whatever the table, also when no player has two matches.
C12_RollingAlwaysDefined ==
    pc = "done" =>
       \A k \in 1..Len(final_df) : \A c \in RecentCols :
          /\ ~IsNaN(final_df[k].p1_recent[c])
          /\ ~IsNaN(final_df[k].p2_recent[c])


\* the events of the player frame that are player pl's view of match k
EventsOf(k, pl) ==
    {j \in 1..Len(player_df) :
        player_df[j].event.match_index = k /\ player_df[j].event.player = pl}

\* C13: the returned table has one row per input match, in processed order,
\* and in row k the p1 rolling columns are those of the one event of the
\* player named p1_name in match k, the p2 columns those of the one event
\* of the player named p2_name in match k.
C13_JoinByMatchAndRole ==
    pc = "done" =>
       /\ Len(final_df) = Len(processed_data)
       /\ \A k \in 1..Len(final_df) :
             /\ final_df[k].row =
                   [processed_data[order[k]] EXCEPT
                       !.tourney_date = to_datetime(@)]
             /\ Cardinality(EventsOf(k, final_df[k].row.p1_name)) = 1
             /\ \A j \in EventsOf(k, final_df[k].row.p1_name) :
                   final_df[k].p1_recent = player_df[j].recent
             /\ Cardinality(EventsOf(k, final_df[k].row.p2_name)) = 1
             /\ \A j \in EventsOf(k, final_df[k].row.p2_name) :
                   final_df[k].p2_recent = player_df[j].recent

\* three returned rows between two players: the four events after the first
\* match carry four different sets of rolling values, and the events stand
\* in the player frame in another order than the matches
C13_Witness ==
    /\ pc = "done"
    /\ Len(final_df) = 3
    /\ Cardinality({player_df[j].recent : j \in 1..Len(player_df)}) = 5
    /\ final_df[3].p1_recent # final_df[3].p2_recent
    /\ final_df[3].p1_recent # final_df[2].p1_recent
    /\ player_df[3].event.match_index > player_df[4].event.match_index
    /\ \E j \in 1..3 : ~player_df[j].event.is_p1
    /\ \E j \in 1..3 : player_df[j].event.is_p1


\* the consumed rows that pl played and that count for surface sf; a row
\* without a surface counts for "Unknown"
PlayedOn(pl, sf) ==
    {j \in 1..row_i :
        /\ Plays(df[j], pl)
        /\ sf = (IF SurfaceKnown(df[j]) THEN df[j].surface ELSE UnknownSurface)}

\* C14: after any number of consumed rows the surface state has an entry
\* for (player, surface) exactly when the player played a consumed match on
\* that surface; its total is the number of those matches and its wins the
\* number the player won, so 0 <= wins <= total and total >= 1.
C14_SurfaceEntriesExact ==
    /\ DOMAIN surface_history \subseteq Players
    /\ \A pl \in Players :
          LET entries == IF pl \in DOMAIN surface_history
                         THEN DOMAIN surface_history[pl] ELSE {}
          IN  \A sf \in Surfaces \cup entries :
                 /\ sf \in entries <=> PlayedOn(pl, sf) # {}
                 /\ sf \in entries =>
                       LET e == surface_history[pl][sf]
                       IN  /\ e[2] = Cardinality(PlayedOn(pl, sf))
                           /\ e[1] = Cardinality({j \in PlayedOn(pl, sf) :
                                                    Winner(df[j]) = pl})
                           /\ 0 <= e[1] /\ e[1] <= e[2] /\ e[2] >= 1

\* three rows consumed: a player holds an "Unknown" entry made of one row on
\* "Unknown" and one without a surface, one of them won, and an entry on a
\* known surface
C14_Witness ==
    /\ row_i = 3
    /\ \E pl \in DOMAIN surface_history :
          /\ DOMAIN surface_history[pl] = {UnknownSurface, "Clay"}
          /\ surface_history[pl][UnknownSurface] = <<1, 2>>
          /\ \E j \in 1..3 : df[j].surface = NaSurface
          /\ \E j \in 1..3 : df[j].surface = UnknownSurface

\* the consumed matches between a and b
MeetingsOf(a, b) ==
    {j \in 1..row_i : {df[j].p1_name, df[j].p2_name} = {a, b}}

\* C15: after any number of consumed rows the head-to-head state has one
\* key per pair of players that met, the two identifiers in ascending order
\* whatever the roles were, and its counters are the number of their
\* consumed matches the first won and the number the second won.
C15_H2HEntriesExact ==
    /\ DOMAIN h2h_history \subseteq Players \X Players
    /\ \A key \in DOMAIN h2h_history : key[1] <= key[2]
    /\ \A a \in Players : \A b \in Players :
          /\ <<a, b>> \in DOMAIN h2h_history <=>
                (a < b /\ MeetingsOf(a, b) # {})
          /\ <<a, b>> \in DOMAIN h2h_history =>
                h2h_history[<<a, b>>] =
                   <<Cardinality({j \in MeetingsOf(a, b) : Winner(df[j]) = a}),
                     Cardinality({j \in MeetingsOf(a, b) : Winner(df[j]) = b})>>

\* three meetings of players 1 and 2: each won once in the role of player 2
\* and player 2 won once in the role of player 1
C15_Witness ==
    /\ row_i = 3
    /\ h2h_history = (<<1, 2>> :> <<1, 2>>)
    /\ \E j \in 1..3 : df[j].target = 0 /\ df[j].p2_name = 1
    /\ \E j \in 1..3 : df[j].target = 0 /\ df[j].p2_name = 2
    /\ \E j \in 1..3 : df[j].target = 1 /\ df[j].p1_name = 2


\* the matches the player frame places before its event j, for j's player
TrackerPrior(j) ==
    {player_df[i].event.match_index :
        i \in {n \in 1..(j - 1) :
                  player_df[n].event.player = player_df[j].event.player}}

\* C16: in the player frame the events of one player stand in the order in
\* which the streaming pass took their matches, equal and missing dates
\* included, so the matches the rolling features count as prior to a
\* player's match are those the surface and head-to-head features count.
C16_TrackerOrderIsPassOrder ==
    pc = "done" =>
       \A j \in 1..Len(player_df) :
          /\ TrackerPrior(j) =
                PriorRows(player_df[j].event.match_index,
                          player_df[j].event.player)
          /\ \A i \in 1..(j - 1) :
                player_df[i].event.player = player_df[j].event.player =>
                   player_df[i].event.match_index
                      < player_df[j].event.match_index

\* a player of three matches: two of one date which the sort exchanged and
\* in which the player had role p2, then role p1, and one without a date
C16_Witness ==
    /\ pc = "done"
    /\ Len(final_df) = 3
    /\ df[1].tourney_date = df[2].tourney_date
    /\ df[1].tourney_date # NaT
    /\ df[3].tourney_date = NaT
    /\ order[1] > order[2]
    /\ \E pl \in Players :
          /\ df[1].p2_name = pl
          /\ df[2].p1_name = pl
          /\ Plays(df[3], pl)


\* C17: in every row preprocess_data returns, target is 1 exactly when
\* player 1 is the official winner; player 1's four tallies are the parsed
\* winner tallies when target is 1 and the loser's when it is 0; player 2's
\* tallies are player 1's with won and lost exchanged.
C17_TargetAndTallies ==
    \A i \in 1..Len(processed_data) :
       LET r == processed_data[i]
           w == parse_match_score(data[i].score)
       IN  /\ r.target \in {0, 1}
           /\ r.target = 1 <=> r.p1_name = data[i].winner_name
           /\ {r.p1_name, r.p2_name} = {data[i].winner_name, data[i].loser_name}
           /\ <<r.p1_games_won, r.p1_games_lost, r.p1_sets_won, r.p1_sets_lost>>
                 = IF r.target = 1 THEN w ELSE <<w[2], w[1], w[4], w[3]>>
           /\ r.p2_games_won = r.p1_games_lost
           /\ r.p2_games_lost = r.p1_games_won
           /\ r.p2_sets_won = r.p1_sets_lost
           /\ r.p2_sets_lost = r.p1_sets_won

\* three preprocessed rows: the first exchanged ("7-6(5) 3-6 6-4" seen by
\* the loser: sets 1-2), the second not ("6-4 2-0 RET": games 8-4), the
\* third exchanged ("6-4 6-3" seen by the loser: games 7-12)
C17_Witness ==
    /\ pc = "preprocessed"
    /\ Len(processed_data) = 3
    /\ processed_data[1].target = 0
    /\ processed_data[1].p1_name = data[1].loser_name
    /\ processed_data[1].p1_sets_won = 1
    /\ processed_data[1].p2_sets_won = 2
    /\ processed_data[2].target = 1
    /\ processed_data[2].p1_games_won = 8
    /\ processed_data[2].p2_games_won = 4
    /\ processed_data[3].p1_games_won = 7
    /\ processed_data[3].p1_games_lost = 12


\* the tokens of a score string: the maximal stretches without a blank
TokenSpans(s) ==
    {sp \in (1..Len(s)) \X (1..Len(s)) :
        /\ sp[1] <= sp[2]
        /\ \A i \in sp[1]..sp[2] : s[i] # " "
        /\ sp[1] = 1 \/ s[sp[1] - 1] = " "
        /\ sp[2] = Len(s) \/ s[sp[2] + 1] = " "}

\* a token without what follows its first "("
BeforeParen(t) ==
    LET P == {i \in 1..Len(t) : t[i] = "("}
    IN  IF P = {} THEN t
        ELSE SubSeq(t, 1, (CHOOSE i \in P : \A j \in P : i <= j) - 1)

Dashes(b) == {i \in 1..Len(b) : b[i] = "-"}
LeftPart(b) == SubSeq(b, 1, (CHOOSE i \in Dashes(b) : TRUE) - 1)
RightPart(b) == SubSeq(b, (CHOOSE i \in Dashes(b) : TRUE) + 1, Len(b))

\* a token that counts: no marker in it, and before its first "(" exactly
\* two parts around one "-", both integers
Counted(t) ==
    /\ ~IsMarker(t)
    /\ Cardinality(Dashes(BeforeParen(t))) = 1
    /\ IntParses(LeftPart(BeforeParen(t)))
    /\ IntParses(RightPart(BeforeParen(t)))

\* both game numbers and at most one set for a token that counts, nothing
\* for any other
Contribution(t) ==
    IF Counted(t)
    THEN LET a == IntVal(LeftPart(BeforeParen(t)))
             b == IntVal(RightPart(BeforeParen(t)))
         IN  <<a, b, IF a > b THEN 1 ELSE 0, IF b > a THEN 1 ELSE 0>>
    ELSE <<0, 0, 0, 0>>

\* the four tallies summed over the tokens of s
TalliesOf(s) ==
    [n \in 1..4 |->
        SumFn([sp \in TokenSpans(s) |-> Contribution(SubSeq(s, sp[1], sp[2]))[n]])]

\* the official winner's tallies as the preprocessed row r holds them
WinnerTallies(r) ==
    IF r.target = 1
    THEN <<r.p1_games_won, r.p1_games_lost, r.p1_sets_won, r.p1_sets_lost>>
    ELSE <<r.p2_games_won, r.p2_games_lost, r.p2_sets_won, r.p2_sets_lost>>

\* C18: for every score string the parse returns four tallies, which are
\* the sums over the tokens of: both game numbers and at most one set for a
\* token that counts, nothing for a marker token, a token without exactly
\* two "-"-separated parts or a token with a part that is no integer (the
\* first part parsing does not count it); no token counting gives
\* (0, 0, 0, 0).
C18_TokensCountedOrSkipped ==
    pc # "load" =>
       /\ Len(processed_data) = Len(data)
       /\ \A i \in 1..Len(data) :
             /\ WinnerTallies(processed_data[i]) = TalliesOf(data[i].score)
             /\ (\A sp \in TokenSpans(data[i].score) :
                    ~Counted(SubSeq(data[i].score, sp[1], sp[2])))
                 => WinnerTallies(processed_data[i]) = <<0, 0, 0, 0>>
             /\ processed_data[i].p1_sets_won + processed_data[i].p1_sets_lost
                   <= Cardinality(TokenSpans(data[i].score))

\* "6-x 7-6(5)": the first token's first part parses and its second does
\* not, the second token counts 7 and 6 games and one set
C18_Witness ==
    /\ pc = "preprocessed"
    /\ data[1].score = <<"6", "-", "x", " ", "7", "-", "6", "(", "5", ")">>
    /\ WinnerTallies(processed_data[1]) = <<7, 6, 1, 0>>


\* the rolling columns of pl's side of returned row k
SideRecent(k, pl) ==
    IF df[k].p1_name = pl THEN final_df[k].p1_recent ELSE final_df[k].p2_recent

\* C19: for a player's match with at least one and at most 5 earlier matches
\* of that player, the window-5 and the window-10 value of each of the five
\* metrics are equal; for a player's first match both win rates are 0.5.
C19_WindowsNested ==
    pc = "done" =>
       \A k \in 1..Len(final_df) : \A pl \in {df[k].p1_name, df[k].p2_name} :
          LET n == Cardinality(PriorRows(k, pl))
          IN  /\ (1 <= n /\ n <= 5) =>
                    \A m \in MetricSet :
                       SideRecent(k, pl)[<<m, 5>>] = SideRecent(k, pl)[<<m, 10>>]
              /\ n = 0 =>
                    /\ SideRecent(k, pl)[<<"won", 5>>] = <<1, 2>>
                    /\ SideRecent(k, pl)[<<"won", 10>>] = <<1, 2>>

\* a player whose match after 5 earlier ones has equal windows, with a win
\* rate other than 0.5, and whose match after 6 earlier ones has not
C19_Witness ==
    /\ pc = "done"
    /\ \E pl \in Players : \E k \in 1..(Len(final_df) - 1) :
          /\ Plays(df[k], pl) /\ Plays(df[k + 1], pl)
          /\ Cardinality(PriorRows(k, pl)) = 5
          /\ SideRecent(k, pl)[<<"won", 5>>] = SideRecent(k, pl)[<<"won", 10>>]
          /\ SideRecent(k, pl)[<<"won", 5>>] # <<1, 2>>
          /\ SideRecent(k + 1, pl)[<<"won", 5>>]
                # SideRecent(k + 1, pl)[<<"won", 10>>]
          /\ SideRecent(k + 1, pl)[<<"games_won", 5>>]
                # SideRecent(k + 1, pl)[<<"games_won", 10>>]


\* C20: no step of add_features changes the table it was called with, and
\* the step that runs compute_rolling_features changes neither that table
\* nor the sorted frame it is given; the converted dates, the new order and
\* the feature columns are in the returned table only.
C20_ArgumentsUnchanged ==
    [][ /\ pc \in {"preprocessed", "loop"} => processed_data' = processed_data
        /\ pc = "loop" => df' = df
        /\ (pc = "loop" /\ pc' = "done") =>
              /\ Len(final_df') = Len(processed_data)
              /\ \A k \in 1..Len(final_df') :
                    /\ final_df'[k].row = df[k]
                    /\ DOMAIN final_df'[k].p1_recent = RecentCols
                    /\ DOMAIN final_df'[k].p2_recent = RecentCols
      ]_vars

\* a returned table of three rows in another order than the table passed
\* in, which still holds the date 20231301 that the returned table holds as
\* missing
C20_Witness ==
    /\ pc = "done"
    /\ Len(final_df) = 3
    /\ order # <<1, 2, 3>>
    /\ processed_data = preprocess_data(data)
    /\ \E k \in 1..3 :
          /\ processed_data[order[k]].tourney_date = 20231301
          /\ final_df[k].row.tourney_date = NaT
    /\ \E k \in 1..3 : final_df[k].row.p1_name # processed_data[k].p1_name

=============================================================================
